---- MODULE Spec2Model ----
(***************************************************************************)
(* A model of the log-processing command line tool (src/src/subcommand.rs).*)
(* Text (lines, keywords, file names, file contents) is modelled as        *)
(* strings, i.e. sequences of characters; a path is a sequence of          *)
(* components, the first being "/" when the path is absolute.              *)
(***************************************************************************)
EXTENDS Integers, Sequences, FiniteSets, TLC

VARIABLES
    fs,        \* the file system: path -> [kind, utf8, data]
    fs0,       \* the file system when the current command started
    config,    \* base_dir stored in config/config.json, or Missing
    cache,     \* the process-wide BASE_DIR cell, or Unset
    cmd,       \* the current (or last) command and its resolved target
    result,    \* "none", "running" (a batch in flight), "ok" or "err"
    entries,   \* the files get_entries collected for the batch
    pc,        \* per entry: "todo", "read" or "done"
    buf,       \* per entry: the content a worker has read
    out,       \* per processed file: what was reported / written
    runs,      \* per entry: how many times a worker took it
    written,   \* every path a remove-line command has written so far
    ranDirs,   \* directories an earlier batch remove-line run completed over
    lastSet,   \* the last successful set_base_dir of this process, or NoPath
    got,       \* what the last get_base_dir returned, or NoPath
    ncmd,      \* number of commands issued
    probe      \* inputs and results of the pure functions

vars == <<fs, fs0, config, cache, cmd, result, entries, pc, buf, out, runs,
          written, ranDirs, lastSet, got, ncmd, probe>>

-----------------------------------------------------------------------------
(* Bounds of the model *)

MaxLineLen == 3

MaxKwLen == 2

MaxKeywords == 2

MaxNameLen == 4

MaxContentLen == 4

MaxRuns == 2

MaxOps == 3

-----------------------------------------------------------------------------
(* Strings *)

RECURSIVE Strs(_, _)
Strs(alphabet, n) ==
    IF n = 0 THEN {""}
    ELSE LET S == Strs(alphabet, n - 1)
         IN  S \cup {s \o c : s \in S, c \in alphabet}

RECURSIVE Seqs(_, _)
Seqs(S, n) ==
    IF n = 0 THEN {<<>>}
    ELSE LET T == Seqs(S, n - 1)
         IN  T \cup {Append(t, s) : t \in T, s \in S}

CharAt(s, i) == SubSeq(s, i, i)

DropFirst(s) == SubSeq(s, 2, Len(s))

\* str::contains with a string pattern: a left-to-right scan for the pattern.
RECURSIVE Contains(_, _)
Contains(line, s) ==
    IF Len(s) > Len(line) THEN FALSE
    ELSE IF SubSeq(line, 1, Len(s)) = s THEN TRUE
    ELSE Contains(DropFirst(line), s)

-----------------------------------------------------------------------------
(* KeywordMatcher *)

DEFAULT_FILTERS == <<"tid:", "pid:", "cpu usage">>

contains_keyword(line, filters) ==
    \E i \in 1..Len(filters) : Contains(line, filters[i])

filter_keyword_any(line, filters) ==
    \E i \in 1..Len(filters) : ~Contains(line, filters[i])

filter_keyword(line, filters) ==
    \A i \in 1..Len(filters) : ~Contains(line, filters[i])

-----------------------------------------------------------------------------
(* Lines of a text: str::lines() *)

\* index of the first "\n" of s at or after i, 0 when there is none
RECURSIVE FindNL(_, _)
FindNL(s, i) ==
    IF i > Len(s) THEN 0
    ELSE IF CharAt(s, i) = "\n" THEN i
    ELSE FindNL(s, i + 1)

\* the pieces of s, each up to and including its "\n"
RECURSIVE SplitInclusive(_)
SplitInclusive(s) ==
    IF s = "" THEN <<>>
    ELSE LET i == FindNL(s, 1)
         IN  IF i = 0 THEN <<s>>
             ELSE <<SubSeq(s, 1, i)>> \o SplitInclusive(SubSeq(s, i + 1, Len(s)))

\* a piece without its line ending ("\n" or "\r\n")
StripEnding(p) ==
    IF Len(p) >= 1 /\ CharAt(p, Len(p)) = "\n"
    THEN LET q == SubSeq(p, 1, Len(p) - 1)
         IN  IF Len(q) >= 1 /\ CharAt(q, Len(q)) = "\r"
             THEN SubSeq(q, 1, Len(q) - 1)
             ELSE q
    ELSE p

Lines(content) ==
    LET ps == SplitInclusive(content)
    IN  [i \in 1..Len(ps) |-> StripEnding(ps[i])]

RECURSIVE Collect(_)
Collect(ls) == IF ls = <<>> THEN "" ELSE Head(ls) \o "\n" \o Collect(Tail(ls))

\* check_log_file_cpu_mem_info: the number of keyword lines
KeywordLines(content, filters) ==
    LET Hit(s) == contains_keyword(s, filters)
    IN  Len(SelectSeq(Lines(content), Hit))

\* remove_log_file_cpu_mem_info: the text written for a content
FilteredTextSwapped(content, filters, keep) ==
    LET Sel(s) == IF keep THEN filter_keyword(s, filters)
                  ELSE contains_keyword(s, filters)
    IN  Collect(SelectSeq(Lines(content), Sel))

FilteredText(content, filters, keep) ==
    LET Sel(s) == IF keep THEN contains_keyword(s, filters)
                  ELSE filter_keyword(s, filters)
    IN  Collect(SelectSeq(Lines(content), Sel))

-----------------------------------------------------------------------------
(* OutputNamingRule: Path::file_stem, Path::extension, with_file_name *)

Marker == "_filtered"

\* index of the last "." of name at or before i, 0 when there is none
RECURSIVE LastDot(_, _)
LastDot(name, i) ==
    IF i = 0 THEN 0
    ELSE IF CharAt(name, i) = "." THEN i
    ELSE LastDot(name, i - 1)

\* a name splits at its last "." unless nothing precedes that "."
HasExtension(name) == name # ".." /\ LastDot(name, Len(name)) > 1

file_stem(name) ==
    IF HasExtension(name)
    THEN SubSeq(name, 1, LastDot(name, Len(name)) - 1)
    ELSE name

\* unwrap_or_default: "" when the name has no extension
extension(name) ==
    IF HasExtension(name)
    THEN SubSeq(name, LastDot(name, Len(name)) + 1, Len(name))
    ELSE ""

NewName(name) ==
    file_stem(name) \o Marker
        \o (IF extension(name) = "" THEN "" ELSE ".") \o extension(name)

FileName(path) == path[Len(path)]

Parent(path) == SubSeq(path, 1, Len(path) - 1)

NewPathInPlace(path) == path

NewPath(path) == Append(Parent(path), NewName(FileName(path)))

-----------------------------------------------------------------------------
(* The file system and paths *)

Root == <<"/">>

NoPath == <<>>

Missing == <<"<missing>">>

Unset == <<"<unset>">>

EmptyMap == [x \in {} |-> x]

Dir == [kind |-> "dir", utf8 |-> TRUE, data |-> ""]

File(text) == [kind |-> "file", utf8 |-> TRUE, data |-> text]

\* a regular file whose bytes are not valid UTF-8
Binary == [kind |-> "file", utf8 |-> FALSE, data |-> ""]

exists(f, p) == p \in DOMAIN f

is_dir(f, p) == p \in DOMAIN f /\ f[p].kind = "dir"

is_absolute(p) == Len(p) > 0 /\ p[1] = "/"

join_ignoring_base(base, p) == p

\* PathBuf::join
join(base, p) == IF is_absolute(p) THEN p ELSE base \o p

Under(dir, p) == Len(dir) < Len(p) /\ SubSeq(p, 1, Len(dir)) = dir

\* fs::read_to_string fails on bytes that are not UTF-8
ReadFails(f, p) == ~f[p].utf8

\* fs::write fails when the path names a directory
WriteFails(f, q) == is_dir(f, q)

get_entries_unfiltered(f, dir) ==
    {p \in DOMAIN f : Under(dir, p) /\ f[p].kind = "file"}

get_entries(f, dir) ==
    {p \in DOMAIN f : /\ Under(dir, p)
                      /\ f[p].kind = "file"
                      /\ ~Contains(FileName(p), Marker)}

-----------------------------------------------------------------------------
(* Outcomes of processing one file *)

Failed == [res |-> "err", count |-> 0, path |-> NoPath, text |-> ""]

Counted(n) == [res |-> "ok", count |-> n, path |-> NoPath, text |-> ""]

Wrote(q, t) == [res |-> "ok", count |-> 0, path |-> q, text |-> t]

\* Option<Vec<String>>: the filters given on the command line, if any
NoFilters == [given |-> FALSE, list |-> <<>>]

Given(list) == [given |-> TRUE, list |-> list]

Filters(opt) == IF opt.given THEN opt.list ELSE DEFAULT_FILTERS

NoCmd == [kind |-> "none", arg |-> NoPath, filters |-> <<>>, keep |-> FALSE,
          target |-> NoPath]

NoProbe == [fn |-> "none", line |-> "", filters |-> <<>>, any |-> FALSE,
            none |-> FALSE, name |-> "", new |-> ""]

-----------------------------------------------------------------------------
(* BaseDirConfig *)

\* get_base_dir_locked fails when the config file cannot be read
LockFails == config = Missing

\* the value of BASE_DIR after get_or_init
Locked == IF cache = Unset THEN config ELSE cache

NeedsBase(arg) == ~is_absolute(arg)

Target(arg) == IF is_absolute(arg) THEN arg ELSE join(Locked, arg)

CacheAfter(arg) == IF NeedsBase(arg) /\ ~LockFails THEN Locked ELSE cache

Idle == result # "running"

\* the directories batch remove-line runs have completed over, the command
\* that just ended included; deleting files forgets them
RanNow ==
    IF cmd.kind = "rmfile" /\ result = "ok" THEN {}
    ELSE IF cmd.kind = "remove" /\ result = "ok" /\ is_dir(fs0, cmd.target)
    THEN ranDirs \cup {cmd.target}
    ELSE ranDirs

\* what every command does first
Begin(kind, arg, opt, keep, target) ==
    /\ Idle
    /\ ncmd' = ncmd + 1
    /\ fs0' = fs
    /\ ranDirs' = RanNow
    /\ cmd' = [kind |-> kind, arg |-> arg, filters |-> Filters(opt),
               keep |-> keep, target |-> target]
    /\ UNCHANGED probe

\* a command that ends at once, leaving no batch behind
Ends(res, o) ==
    /\ result' = res
    /\ out' = o
    /\ entries' = {}
    /\ pc' = EmptyMap
    /\ buf' = EmptyMap
    /\ runs' = EmptyMap

\* a command that fans out over the files of dir
Fans(dir) ==
    /\ result' = "running"
    /\ entries' = get_entries(fs, dir)
    /\ pc' = [e \in get_entries(fs, dir) |-> "todo"]
    /\ buf' = EmptyMap
    /\ out' = EmptyMap
    /\ runs' = [e \in get_entries(fs, dir) |-> 0]

set_base_dir(p) ==
    /\ Begin("set", p, NoFilters, FALSE, p)
    /\ IF ~exists(fs, p) \/ ~is_dir(fs, p)
       THEN /\ Ends("err", EmptyMap)
            /\ UNCHANGED <<config, lastSet>>
       ELSE /\ Ends("ok", EmptyMap)
            /\ config' = p
            /\ lastSet' = p
    /\ UNCHANGED <<fs, cache, written, got>>

get_base_dir ==
    /\ Begin("get", NoPath, NoFilters, FALSE, NoPath)
    /\ IF LockFails
       THEN /\ Ends("err", EmptyMap)
            /\ UNCHANGED <<cache, got>>
       ELSE /\ Ends("ok", EmptyMap)
            /\ cache' = Locked
            /\ got' = Locked
    /\ UNCHANGED <<fs, config, written, lastSet>>

\* a new process starts: its BASE_DIR cell is empty and nothing has run in it
NewProcess ==
    /\ Idle
    /\ cmd # NoCmd
    /\ cache' = Unset
    /\ cmd' = NoCmd
    /\ Ends("none", EmptyMap)
    /\ ranDirs' = RanNow
    /\ lastSet' = NoPath
    /\ got' = NoPath
    /\ UNCHANGED <<fs, fs0, config, written, ncmd, probe>>

-----------------------------------------------------------------------------
(* FileLineProcessor *)

\* check_log_file_cpu_mem_info on the file p of f
CheckOutcome(f, p, filters) ==
    IF ReadFails(f, p) THEN Failed
    ELSE Counted(KeywordLines(f[p].data, filters))

\* the write that ends remove_log_file_cpu_mem_info, given the text to write
WriteOutcome(f, p, text) ==
    IF WriteFails(f, NewPath(p)) THEN Failed ELSE Wrote(NewPath(p), text)

\* remove_log_file_cpu_mem_info on the file p of f
RemoveOutcome(f, p, filters, keep) ==
    IF ReadFails(f, p) THEN Failed
    ELSE WriteOutcome(f, p, FilteredText(f[p].data, filters, keep))

\* the file system after an outcome
After(f, o) ==
    IF o.res = "ok" /\ o.path # NoPath THEN (o.path :> File(o.text)) @@ f ELSE f

WrittenAfter(o) ==
    IF o.res = "ok" /\ o.path # NoPath THEN written \cup {o.path} ELSE written

-----------------------------------------------------------------------------
(* The commands *)

process_check_line(arg, opt) ==
    /\ Begin("check", arg, opt, FALSE,
             IF NeedsBase(arg) /\ LockFails THEN NoPath ELSE Target(arg))
    /\ cache' = CacheAfter(arg)
    /\ IF NeedsBase(arg) /\ LockFails THEN Ends("err", EmptyMap)
       ELSE IF ~exists(fs, Target(arg)) THEN Ends("err", EmptyMap)
       ELSE IF is_dir(fs, Target(arg)) THEN Fans(Target(arg))
       ELSE LET o == CheckOutcome(fs, Target(arg), Filters(opt))
            IN  Ends(o.res, Target(arg) :> o)
    /\ UNCHANGED <<fs, config, written, lastSet, got>>

process_remove_line(arg, opt, keep) ==
    /\ Begin("remove", arg, opt, keep,
             IF NeedsBase(arg) /\ LockFails THEN NoPath ELSE Target(arg))
    /\ cache' = CacheAfter(arg)
    /\ IF NeedsBase(arg) /\ LockFails
       THEN Ends("err", EmptyMap) /\ UNCHANGED <<fs, written>>
       ELSE IF ~exists(fs, Target(arg))
       THEN Ends("err", EmptyMap) /\ UNCHANGED <<fs, written>>
       ELSE IF is_dir(fs, Target(arg))
       THEN Fans(Target(arg)) /\ UNCHANGED <<fs, written>>
       ELSE LET o == RemoveOutcome(fs, Target(arg), Filters(opt), keep)
            IN  /\ Ends(o.res, Target(arg) :> o)
                /\ fs' = After(fs, o)
                /\ written' = WrittenAfter(o)
    /\ UNCHANGED <<config, lastSet, got>>

\* fs::remove_dir_all / fs::remove_file
Without(f, p) == [q \in {r \in DOMAIN f : r # p /\ ~Under(p, r)} |-> f[q]]

process_remove_file(arg) ==
    /\ Begin("rmfile", arg, NoFilters, FALSE,
             IF NeedsBase(arg) /\ LockFails THEN NoPath ELSE Target(arg))
    /\ cache' = CacheAfter(arg)
    /\ IF NeedsBase(arg) /\ LockFails
       THEN Ends("err", EmptyMap) /\ UNCHANGED fs
       ELSE IF ~exists(fs, Target(arg))
       THEN Ends("err", EmptyMap) /\ UNCHANGED fs
       ELSE Ends("ok", EmptyMap) /\ fs' = Without(fs, Target(arg))
    /\ UNCHANGED <<config, written, lastSet, got>>

-----------------------------------------------------------------------------
(* BatchRunner: the parallel workers of a batch *)

CancelOthers(e) == [x \in DOMAIN pc |-> "done"]

\* a failure is printed; the other entries are left as they are
AfterFailure(e) == [pc EXCEPT ![e] = "done"]

\* a worker takes entry e of a check batch
WorkerCheck(e) ==
    /\ result = "running" /\ cmd.kind = "check"
    /\ e \in entries /\ pc[e] = "todo"
    /\ runs' = [runs EXCEPT ![e] = @ + 1]
    /\ LET o == CheckOutcome(fs, e, cmd.filters)
       IN  /\ out' = (e :> o) @@ out
           /\ pc' = IF o.res = "err" THEN AfterFailure(e)
                    ELSE [pc EXCEPT ![e] = "done"]
    /\ UNCHANGED <<fs, fs0, config, cache, cmd, result, entries, buf, written,
                   ranDirs, lastSet, got, ncmd, probe>>

\* a worker takes entry e of a remove batch and reads it
WorkerRead(e) ==
    /\ result = "running" /\ cmd.kind = "remove"
    /\ e \in entries /\ pc[e] = "todo"
    /\ runs' = [runs EXCEPT ![e] = @ + 1]
    /\ IF ReadFails(fs, e)
       THEN /\ out' = (e :> Failed) @@ out
            /\ pc' = AfterFailure(e)
            /\ UNCHANGED buf
       ELSE /\ buf' = (e :> fs[e].data) @@ buf
            /\ pc' = [pc EXCEPT ![e] = "read"]
            /\ UNCHANGED out
    /\ UNCHANGED <<fs, fs0, config, cache, cmd, result, entries, written,
                   ranDirs, lastSet, got, ncmd, probe>>

\* the worker holding entry e filters what it read and writes the output
WorkerWrite(e) ==
    /\ result = "running" /\ cmd.kind = "remove"
    /\ e \in entries /\ pc[e] = "read"
    /\ LET o == WriteOutcome(fs, e, FilteredText(buf[e], cmd.filters, cmd.keep))
       IN  /\ out' = (e :> o) @@ out
           /\ fs' = After(fs, o)
           /\ written' = WrittenAfter(o)
           /\ pc' = IF o.res = "err" THEN AfterFailure(e)
                    ELSE [pc EXCEPT ![e] = "done"]
    /\ UNCHANGED <<fs0, config, cache, cmd, result, entries, buf, runs,
                   ranDirs, lastSet, got, ncmd, probe>>

BatchResultPropagating == IF \E e \in entries : out[e].res = "err" THEN "err" ELSE "ok"

\* the directory branch returns nothing: the command ends Ok(())
BatchResult == "ok"

\* for_each returns once every entry has been processed
FinishBatch ==
    /\ result = "running"
    /\ \A e \in entries : pc[e] = "done"
    /\ result' = BatchResult
    /\ UNCHANGED <<fs, fs0, config, cache, cmd, entries, pc, buf, out, runs,
                   written, ranDirs, lastSet, got, ncmd, probe>>

-----------------------------------------------------------------------------
(* Batch runs over a directory tree *)

D == <<"/", "d">>

S == <<"/", "d", "s">>

A == <<"/", "d", "a">>

ADot == <<"/", "d", "a.">>

B == <<"/", "d", "s", "b.log">>

Old == <<"/", "d", "c_filtered.log">>

Blocker == <<"/", "d", "s", "b_filtered.log">>

\* /d holds a, a. and an output of an earlier run; /d/s holds b.log and,
\* when blocked, a directory where the output of b.log would go
Tree(a, adot, b, blocked) ==
    (Root :> Dir) @@ (D :> Dir) @@ (S :> Dir) @@ (A :> a) @@ (ADot :> adot)
        @@ (B :> b) @@ (Old :> File("o\n"))
        @@ (IF blocked THEN Blocker :> Dir ELSE EmptyMap)

InitWith(f, cfg, pr) ==
    /\ fs = f
    /\ fs0 = f
    /\ config = cfg
    /\ cache = Unset
    /\ cmd = NoCmd
    /\ result = "none"
    /\ entries = {}
    /\ pc = EmptyMap
    /\ buf = EmptyMap
    /\ out = EmptyMap
    /\ runs = EmptyMap
    /\ written = {}
    /\ ranDirs = {}
    /\ lastSet = NoPath
    /\ got = NoPath
    /\ ncmd = 0
    /\ probe = pr

Init ==
    \E a \in {File("x\no\ny"), Binary}, adot \in {File("o\nxy\n"), Binary},
       b \in {File("y\r\nx\n"), Binary}, blocked \in BOOLEAN :
        InitWith(Tree(a, adot, b, blocked), D, NoProbe)

BatchArgs == {D, S, A, B, Old}

BatchFilters == {Given(<<"x">>), Given(<<"x", "y">>)}

CheckLine ==
    /\ ncmd < MaxRuns
    /\ \E arg \in BatchArgs, opt \in BatchFilters : process_check_line(arg, opt)

RemoveLine ==
    /\ ncmd < MaxRuns
    /\ \E arg \in BatchArgs, opt \in BatchFilters, keep \in BOOLEAN :
          process_remove_line(arg, opt, keep)

Workers ==
    \/ \E e \in entries : WorkerCheck(e)
    \/ \E e \in entries : WorkerRead(e)
    \/ \E e \in entries : WorkerWrite(e)
    \/ FinishBatch

Next == CheckLine \/ RemoveLine \/ Workers

Spec == Init /\ [][Next]_vars

\* one command per behaviour
CheckOnce ==
    /\ ncmd = 0
    /\ \E arg \in BatchArgs, opt \in BatchFilters : process_check_line(arg, opt)

RemoveOnce ==
    /\ ncmd = 0
    /\ \E arg \in BatchArgs, opt \in BatchFilters, keep \in BOOLEAN :
          process_remove_line(arg, opt, keep)

NextRun == CheckOnce \/ RemoveOnce \/ Workers

\* every worker of the pool runs its closure to the end, and for_each returns
FairRun == Init /\ [][NextRun]_vars /\ WF_vars(Workers)

-----------------------------------------------------------------------------
(* What the claims speak of, stated without the code's operators *)

\* k is a contiguous substring of line
HasSub(line, k) ==
    \E i \in 0..(Len(line) - Len(k)) : SubSeq(line, i + 1, i + Len(k)) = k

HasAny(line, K) == \E i \in 1..Len(K) : HasSub(line, K[i])

\* the lines of ls, in order, that contain (keep) or do not contain a keyword
Kept(ls, K, keep) ==
    LET Sel(l) == (HasAny(l, K) <=> keep) IN SelectSeq(ls, Sel)

IsBatch == cmd.kind \in {"check", "remove"} /\ is_dir(fs0, cmd.target)

IsSingle ==
    /\ cmd.kind \in {"check", "remove"}
    /\ exists(fs0, cmd.target)
    /\ ~is_dir(fs0, cmd.target)

\* the files the current command takes as input
Inputs == IF IsBatch THEN entries ELSE IF IsSingle THEN {cmd.target} ELSE {}

\* whether processing p must fail, judged from p and its output path alone
MustFail(p) ==
    \/ ~fs0[p].utf8
    \/ cmd.kind = "remove" /\ is_dir(fs0, NewPath(p))

\* the outcome of p when nothing else is going on
Alone(p) ==
    IF MustFail(p) THEN Failed
    ELSE IF cmd.kind = "check"
    THEN Counted(Len(Kept(Lines(fs0[p].data), cmd.filters, TRUE)))
    ELSE Wrote(NewPath(p), Collect(Kept(Lines(fs0[p].data), cmd.filters, cmd.keep)))

\* every discovered file is taken at most once and, once done, has the
\* outcome it has when processed alone; an entry not yet done is either
\* untaken or held by a worker with the content it read
C2_Isolated ==
    IsBatch /\ result \in {"running", "ok"} =>
        /\ \A e \in entries :
              /\ runs[e] <= 1
              /\ pc[e] # "todo" => runs[e] = 1
              /\ pc[e] = "done" => e \in DOMAIN out /\ out[e] = Alone(e)
              /\ \/ pc[e] \in {"todo", "done"}
                 \/ pc[e] = "read" /\ cmd.kind = "remove" /\ e \in DOMAIN buf
        /\ result = "ok" => \A e \in entries : pc[e] = "done"

\* C2: in a batch, under every interleaving of the workers, every discovered
\* file is processed exactly once and ends with the outcome it has when
\* processed alone, whichever other files fail, and the batch runs to
\* completion: it ends, and only when every discovered file has been processed.
C2_BatchIsolation ==
    /\ []C2_Isolated
    /\ (result = "running") ~> (result = "ok" /\ \A e \in entries : pc[e] = "done")

C2_Witness ==
    /\ IsBatch /\ result = "ok"
    /\ \E e1, e2 \in entries : out[e1].res = "err" /\ out[e2].res = "ok"

\* an earlier batch remove-line run went over dir or a directory above it
Covered(dir) == \E d \in ranDirs : d = dir \/ Under(d, dir)

\* C3: no file written by a remove-line run is an input of that run or of a
\* later one, no batch output carries the marker twice, and a batch run over
\* a directory an earlier batch run covered creates no new file.
C3_NoReprocessing ==
    /\ entries \cap written = {}
    /\ IsBatch /\ cmd.kind = "remove" =>
          /\ \A e \in DOMAIN out :
                out[e].path # NoPath =>
                    ~Contains(FileName(out[e].path), Marker \o Marker)
          /\ Covered(cmd.target) => DOMAIN fs = DOMAIN fs0

C3_Witness ==
    /\ IsBatch /\ cmd.kind = "remove" /\ result = "ok"
    /\ Covered(cmd.target)
    /\ \E e \in entries : out[e].res = "ok" /\ out[e].path \in written

\* C5: check mode writes nothing; filter mode changes only paths that carry
\* the marker, never writes to an input of the run, and leaves every input
\* file with the content it had when the run began.
C5_InputsUntouched ==
    cmd.kind \in {"check", "remove"} =>
        /\ cmd.kind = "check" => fs = fs0
        /\ \A p \in Inputs : exists(fs, p) /\ fs[p] = fs0[p]
        /\ \A p \in DOMAIN out : out[p].path \notin Inputs
        /\ \A p \in DOMAIN fs0 : exists(fs, p)
        /\ \A p \in DOMAIN fs :
              (~exists(fs0, p) \/ fs[p] # fs0[p]) => Contains(FileName(p), Marker)

C5_Witness ==
    /\ IsBatch /\ cmd.kind = "remove" /\ result = "ok"
    /\ fs # fs0
    /\ \E e \in entries : out[e].res = "err"

\* C9: a per-file failure makes a single-file command fail and leaves a
\* batch command successful, however many files failed; no file is retried.
C9_FailureSurfacing ==
    result \in {"ok", "err"} =>
        /\ IsSingle => (result = "err" <=> MustFail(cmd.target))
        /\ IsBatch => result = "ok" /\ \A e \in entries : runs[e] = 1

C9_Witness ==
    /\ IsBatch /\ result = "ok"
    /\ entries # {}
    /\ \A e \in entries : out[e].res = "err"

\* C10: in a batch remove-line run distinct input files have distinct output
\* paths, so every output file ends holding what its own worker wrote.
C10_DistinctOutputs ==
    IsBatch /\ cmd.kind = "remove" =>
        /\ \A e1, e2 \in entries : e1 # e2 => NewPath(e1) # NewPath(e2)
        /\ result = "ok" =>
              \A e \in entries :
                  out[e].res = "ok" => fs[out[e].path] = File(out[e].text)

-----------------------------------------------------------------------------
(* The keyword matcher on its own *)

TestLines ==
    {"[2026-01-06 10:29:10.792] [info] [Global]  pid: 12992, total threads: 59",
     "[2026-01-06 10:29:09.814] [info] [ModelServer]  generateAllGltfModel called"}

NoTree == Root :> Dir

InitMatch ==
    \E line \in Strs({"x", "y"}, MaxLineLen) \cup TestLines,
       K \in Seqs(Strs({"x", "y"}, MaxKwLen), MaxKeywords) \cup {DEFAULT_FILTERS} :
        InitWith(NoTree, Missing,
                 [NoProbe EXCEPT !.fn = "line", !.line = line, !.filters = K])

Match ==
    /\ probe.fn = "line"
    /\ probe' = [probe EXCEPT
                    !.fn = "matched",
                    !.any = contains_keyword(probe.line, probe.filters),
                    !.none = filter_keyword(probe.line, probe.filters)]
    /\ UNCHANGED <<fs, fs0, config, cache, cmd, result, entries, pc, buf, out,
                   runs, written, ranDirs, lastSet, got, ncmd>>

NextMatch == Match

SpecMatch == InitMatch /\ [][NextMatch]_vars

\* C6: filter_keyword is the negation of contains_keyword, which holds
\* exactly when some keyword is a contiguous substring of the line; for no
\* keywords contains_keyword is false and filter_keyword is true.
C6_Complement ==
    probe.fn = "matched" =>
        /\ probe.none = ~probe.any
        /\ probe.any = HasAny(probe.line, probe.filters)
        /\ probe.filters = <<>> => ~probe.any /\ probe.none

C6_Witness ==
    /\ probe.fn = "matched"
    /\ probe.any /\ ~probe.none
    /\ Len(probe.filters) = 2
    /\ \E i \in 1..2 : ~HasSub(probe.line, probe.filters[i])

-----------------------------------------------------------------------------
(* Filtering one file *)

F == <<"/", "d", "f.log">>

FilterChoices == {Given(<<>>), Given(<<"x">>), Given(<<"xo", "ox">>)}

InitFilter ==
    \E text \in Strs({"x", "o", "\n", "\r"}, MaxContentLen) :
        InitWith((Root :> Dir) @@ (D :> Dir) @@ (F :> File(text)), D, NoProbe)

FilterOnce ==
    /\ ncmd = 0
    /\ \E opt \in FilterChoices, keep \in BOOLEAN :
          process_remove_line(F, opt, keep)

NextFilter == FilterOnce

SpecFilter == InitFilter /\ [][NextFilter]_vars

\* C1: for keywords K, not empty, filtering a file with lines L writes, each
\* followed by a newline and in the order of L, the lines of L holding no
\* keyword (keep=false) or those holding one (keep=true); the other policy
\* yields the lines left out, so each line is in exactly one of the two.
C1_FilterRoundTrip ==
    cmd.kind = "remove" /\ result = "ok" /\ IsSingle /\ cmd.filters # <<>> =>
        LET L == Lines(fs0[cmd.target].data)
            o == out[cmd.target]
        IN  /\ o.text = Collect(Kept(L, cmd.filters, cmd.keep))
            /\ fs[o.path] = File(o.text)
            /\ FilteredText(fs0[cmd.target].data, cmd.filters, ~cmd.keep)
                  = Collect(Kept(L, cmd.filters, ~cmd.keep))
            /\ Len(Kept(L, cmd.filters, TRUE)) + Len(Kept(L, cmd.filters, FALSE))
                  = Len(L)

C1_Witness ==
    /\ cmd.kind = "remove" /\ result = "ok" /\ IsSingle
    /\ cmd.filters # <<>>
    /\ out[cmd.target].text # ""
    /\ Len(Lines(out[cmd.target].text)) < Len(Lines(fs0[cmd.target].data))

-----------------------------------------------------------------------------
(* Naming the output *)

\* file names: some letter, and dots anywhere
Names == {n \in Strs({"a", "l", "."}, MaxNameLen) : Contains(n, "a") \/ Contains(n, "l")}

InitName ==
    \E n \in Names :
        InitWith((Root :> Dir) @@ (D :> Dir) @@ (Append(D, n) :> File("x\no\n")),
                 D, NoProbe)

FilterNamed ==
    /\ ncmd = 0
    /\ \E p \in DOMAIN fs, keep \in BOOLEAN :
          /\ fs[p].kind = "file"
          /\ process_remove_line(p, Given(<<"x">>), keep)

NextName == FilterNamed

SpecName == InitName /\ [][NextName]_vars

\* the name with the marker put before its extension: before the last "."
\* unless the name has none or only starts with one
Inserted(name) ==
    LET i == LastDot(name, Len(name))
    IN  IF i > 1
        THEN SubSeq(name, 1, i - 1) \o Marker \o SubSeq(name, i, Len(name))
        ELSE name \o Marker

\* C4: filter mode writes to the sibling of the input whose name is the
\* input's name with the marker inserted before the extension.
C4_OutputName ==
    cmd.kind = "remove" /\ result = "ok" /\ IsSingle =>
        /\ Parent(out[cmd.target].path) = Parent(cmd.target)
        /\ FileName(out[cmd.target].path) = Inserted(FileName(cmd.target))

-----------------------------------------------------------------------------
(* The base directory and path resolution *)

PathTree ==
    (Root :> Dir) @@ (D :> Dir) @@ (S :> Dir)
        @@ (A :> File("tid: 1\nok\n")) @@ (B :> File("cpu usage\n"))

InitPath == \E cfg \in {Missing, D} : InitWith(PathTree, cfg, NoProbe)

DirArgs == {D, S, A, <<"/", "nope">>}

PathArgs == {<<"a">>, <<"b.log">>, <<"s">>, A, <<"/", "d", "zz">>}

SetBaseDir == ncmd < MaxOps /\ \E p \in DirArgs : set_base_dir(p)

GetBaseDir == ncmd < MaxOps /\ get_base_dir

PathCheckLine ==
    ncmd < MaxOps /\ \E arg \in PathArgs : process_check_line(arg, NoFilters)

PathRemoveLine ==
    ncmd < MaxOps /\ \E arg \in PathArgs, keep \in BOOLEAN :
        process_remove_line(arg, NoFilters, keep)

PathRemoveFile ==
    ncmd < MaxOps /\ \E arg \in PathArgs : process_remove_file(arg)

NextPath ==
    \/ SetBaseDir
    \/ GetBaseDir
    \/ NewProcess
    \/ PathCheckLine
    \/ PathRemoveLine
    \/ PathRemoveFile
    \/ Workers

SpecPath == InitPath /\ [][NextPath]_vars

IsPathCmd == cmd.kind \in {"check", "remove", "rmfile"}

\* C7: a get_base_dir that follows a successful set_base_dir(p) of the same
\* process returns p, and relative paths are resolved against that p.
C7_GetReturnsSet ==
    lastSet # NoPath /\ result \in {"ok", "err"} =>
        /\ cmd.kind = "get" /\ result = "ok" => got = lastSet
        /\ IsPathCmd /\ ~is_absolute(cmd.arg) /\ cmd.target # NoPath =>
              cmd.target = lastSet \o cmd.arg

\* C8: the target is the path itself when absolute and the base directory
\* followed by the path when relative; when the target does not exist (or
\* the base directory cannot be loaded) the command fails and nothing is
\* read for classification, written or deleted.
C8_Resolution ==
    IsPathCmd =>
        /\ is_absolute(cmd.arg) => cmd.target = cmd.arg
        /\ ~is_absolute(cmd.arg) /\ cmd.target # NoPath =>
              cache # Unset /\ cmd.target = cache \o cmd.arg
        /\ cmd.target = NoPath \/ ~exists(fs0, cmd.target) =>
              /\ result = "err"
              /\ fs = fs0
              /\ entries = {}
              /\ out = EmptyMap

C8_Witness ==
    /\ IsPathCmd
    /\ ~is_absolute(cmd.arg)
    /\ cmd.target # NoPath /\ ~exists(fs0, cmd.target)
    /\ result = "err"
    /\ cache = S

====
